---- MODULE Spec2Model ----
(***************************************************************************)
(* Model of src/lambda/node.js: the S3-triggered Lambda handler that       *)
(* fetches a tabular file, profiles its numeric columns, asks a text       *)
(* generation service for two summaries, builds a statistics table and     *)
(* writes three objects to the output bucket.                              *)
(*                                                                         *)
(* JavaScript strings are sequences of one-character strings, so that      *)
(* split, endsWith, trim, parseFloat and decodeURIComponent are computed   *)
(* character by character.  A JavaScript object is a record                *)
(* [keys, val]: keys is the order in which the properties were created,    *)
(* val the property values; ObjectKeys gives the order the language        *)
(* enumerates them in.  A local variable that may still be unassigned is   *)
(* a sequence of length 0 (unassigned) or 1 (assigned).                    *)
(*                                                                         *)
(* Numbers are [k, n, d]: k = "fin" is the rational n/d in lowest terms,   *)
(* k = "inf" is +Infinity (n = 1) or -Infinity (n = -1), k = "nan" is NaN. *)
(* Finite arithmetic is exact; the inputs of the model are exactly         *)
(* representable doubles.                                                  *)
(***************************************************************************)
EXTENDS Integers, Sequences, FiniteSets, TLC

\* ---------------------------------------------------------------- bounds
MaxRows == 3

MaxCols == 2

MaxCells == 4

MaxRuns == 2

\* ---------------------------------------------------------------- strings
Take(s, n) == SubSeq(s, 1, n)

Drop(s, n) == SubSeq(s, n + 1, Len(s))

StartsWith(s, p) == Len(p) <= Len(s) /\ Take(s, Len(p)) = p

EndsWith(s, p) == Len(p) <= Len(s) /\ Drop(s, Len(s) - Len(p)) = p

DigitChars == {"0", "1", "2", "3", "4", "5", "6", "7", "8", "9"}

DigitVal(c) ==
  CASE c = "0" -> 0 [] c = "1" -> 1 [] c = "2" -> 2 [] c = "3" -> 3
    [] c = "4" -> 4 [] c = "5" -> 5 [] c = "6" -> 6 [] c = "7" -> 7
    [] c = "8" -> 8 [] c = "9" -> 9

\* Length of the longest prefix of s made of characters of the set cs.
LeadLen(s, cs) ==
  CHOOSE n \in 0..Len(s) :
    /\ \A i \in 1..n : s[i] \in cs
    /\ (n = Len(s) \/ s[n + 1] \notin cs)

\* Length of the longest suffix of s made of characters of the set cs.
TrailLen(s, cs) ==
  CHOOSE n \in 0..Len(s) :
    /\ \A i \in (Len(s) - n + 1)..Len(s) : s[i] \in cs
    /\ (n = Len(s) \/ s[Len(s) - n] \notin cs)

RECURSIVE DigitsVal(_)
DigitsVal(s) ==
  IF s = <<>> THEN 0
  ELSE DigitsVal(Take(s, Len(s) - 1)) * 10 + DigitVal(s[Len(s)])

RECURSIVE Pow10(_)
Pow10(n) == IF n = 0 THEN 1 ELSE 10 * Pow10(n - 1)

\* String.prototype.trim
Trim(s) ==
  LET a == LeadLen(s, {" "})
      t == Drop(s, a)
  IN  Take(t, Len(t) - TrailLen(t, {" "}))

\* String.prototype.split with a one-character separator.
RECURSIVE Split(_, _)
Split(s, sep) ==
  LET hit == {i \in 1..Len(s) : s[i] = sep}
  IN  IF hit = {} THEN <<s>>
      ELSE LET i == CHOOSE j \in hit : \A h \in hit : j <= h
           IN  <<Take(s, i - 1)>> \o Split(Drop(s, i), sep)

\* Array.prototype.pop: the last element.
Pop(a) == a[Len(a)]

\* ---------------------------------------------------------------- numbers
NaN == [k |-> "nan", n |-> 0, d |-> 1]

PosInf == [k |-> "inf", n |-> 1, d |-> 1]

NegInf == [k |-> "inf", n |-> -1, d |-> 1]

Abs(x) == IF x < 0 THEN -x ELSE x

RECURSIVE Gcd(_, _)
Gcd(a, b) == IF b = 0 THEN a ELSE Gcd(b, a % b)

\* The finite number n/d (d > 0) in lowest terms.
Fin(n, d) ==
  LET g == Gcd(Abs(n), d)
  IN  [k |-> "fin", n |-> n \div g, d |-> d \div g]

Int2Num(i) == Fin(i, 1)

isNaN(x) == x.k = "nan"

\* a + b
NumAdd(a, b) ==
  CASE a.k = "nan" \/ b.k = "nan" -> NaN
    [] a.k = "inf" /\ b.k = "inf" -> IF a.n = b.n THEN a ELSE NaN
    [] a.k = "inf" -> a
    [] b.k = "inf" -> b
    [] OTHER -> Fin(a.n * b.d + b.n * a.d, a.d * b.d)

\* a / c for an integer c >= 1
NumDivInt(a, c) ==
  CASE a.k = "nan" -> NaN
    [] a.k = "inf" -> a
    [] OTHER -> Fin(a.n, a.d * c)

\* a * c for an integer c >= 1
NumMulInt(a, c) ==
  CASE a.k = "nan" -> NaN
    [] a.k = "inf" -> a
    [] OTHER -> Fin(a.n * c, a.d)

\* a < b, for a and b not NaN
NumLess(a, b) ==
  CASE a.k = "inf" /\ b.k = "inf" -> a.n < b.n
    [] a.k = "inf" -> a.n < 0
    [] b.k = "inf" -> b.n > 0
    [] OTHER -> a.n * b.d < b.n * a.d

\* a === b
NumEq(a, b) == a.k # "nan" /\ b.k # "nan" /\ a = b

\* parseFloat applied to a string: leading white space is skipped, then the
\* longest prefix that is a decimal literal (sign, "Infinity" or digits with
\* an optional fraction and exponent) is converted; no such prefix is NaN.
parseFloat(s) ==
  LET t    == Drop(s, LeadLen(s, {" "}))
      neg  == t # <<>> /\ t[1] = "-"
      sgn  == IF neg THEN -1 ELSE 1
      u    == IF t # <<>> /\ t[1] \in {"+", "-"} THEN Drop(t, 1) ELSE t
      ni   == LeadLen(u, DigitChars)
      v    == Drop(u, ni)
      dot  == v # <<>> /\ v[1] = "."
      w    == IF dot THEN Drop(v, 1) ELSE v
      nf   == IF dot THEN LeadLen(w, DigitChars) ELSE 0
      x    == Drop(w, nf)
      hasE == x # <<>> /\ x[1] \in {"e", "E"}
      y    == IF hasE THEN Drop(x, 1) ELSE x
      eneg == hasE /\ y # <<>> /\ y[1] = "-"
      z    == IF hasE /\ y # <<>> /\ y[1] \in {"+", "-"} THEN Drop(y, 1) ELSE y
      ne   == IF hasE THEN LeadLen(z, DigitChars) ELSE 0
      ex   == DigitsVal(Take(z, ne))
      mant == DigitsVal(Take(u, ni)) * Pow10(nf) + DigitsVal(Take(w, nf))
  IN  IF StartsWith(u, <<"I", "n", "f", "i", "n", "i", "t", "y">>)
      THEN (IF neg THEN NegInf ELSE PosInf)
      ELSE IF ni = 0 /\ nf = 0 THEN NaN
      ELSE IF ne = 0 THEN Fin(sgn * mant, Pow10(nf))
      ELSE IF eneg THEN Fin(sgn * mant, Pow10(nf) * Pow10(ex))
      ELSE Fin(sgn * mant * Pow10(ex), Pow10(nf))

\* ---------------------------------------------------------------- objects
EmptyObj == [keys |-> <<>>, val |-> [x \in {} |-> 0]]

\* o[k] = v: a new property is created last, an existing one keeps its place.
SetProp(o, k, v) ==
  [keys |-> IF k \in DOMAIN o.val THEN o.keys ELSE Append(o.keys, k),
   val  |-> [x \in (DOMAIN o.val) \cup {k} |-> IF x = k THEN v ELSE o.val[x]]]

\* A property name that is a canonical array index ("0", "7", "10", not "07").
IsArrayIndex(name) ==
  /\ name # <<>>
  /\ \A i \in 1..Len(name) : name[i] \in DigitChars
  /\ (Len(name) = 1 \/ name[1] # "0")
  /\ Len(name) <= 9   \* every such name is below the limit 2^32 - 2

\* The names of a set of array-index names, in ascending numeric order.
RECURSIVE SortIndexNames(_)
SortIndexNames(S) ==
  IF S = {} THEN <<>>
  ELSE LET m == CHOOSE a \in S : \A b \in S : DigitsVal(a) <= DigitsVal(b)
       IN  <<m>> \o SortIndexNames(S \ {m})

\* Object.keys: array-index names first, in ascending numeric order, then the
\* other names in the order the properties were created.
ObjectKeys(o) ==
  SortIndexNames({o.keys[i] : i \in {j \in 1..Len(o.keys) : IsArrayIndex(o.keys[j])}})
    \o SelectSeq(o.keys, LAMBDA k : ~IsArrayIndex(k))

\* Object.entries: the [key, value] pairs in Object.keys order.
ObjectEntries(o) ==
  LET ks == ObjectKeys(o)
  IN  [i \in 1..Len(ks) |-> <<ks[i], o.val[ks[i]]>>]

Undefined == <<"u", "n", "d", "e", "f", "i", "n", "e", "d">>

\* r[col] as parseFloat sees it: a missing property is undefined, which
\* parseFloat converts to the string "undefined".
CellText(r, col) == IF col \in DOMAIN r.val THEN r.val[col] ELSE Undefined

\* ---------------------------------------------------------------- profile
RECURSIVE SeqSum(_)
SeqSum(nums) ==
  IF nums = <<>> THEN Int2Num(0)
  ELSE NumAdd(SeqSum(Take(nums, Len(nums) - 1)), nums[Len(nums)])

\* Math.min(...nums), Math.max(...nums) for a non-empty list without NaN
MathMin(nums) ==
  nums[CHOOSE i \in 1..Len(nums) : \A j \in 1..Len(nums) : ~NumLess(nums[j], nums[i])]

MathMax(nums) ==
  nums[CHOOSE i \in 1..Len(nums) : \A j \in 1..Len(nums) : ~NumLess(nums[i], nums[j])]

\* rows.map((r) => parseFloat(r[col])).filter((n) => !isNaN(n))
ColumnNums(rows, col) ==
  SelectSeq([i \in 1..Len(rows) |-> parseFloat(CellText(rows[i], col))],
            LAMBDA n : ~isNaN(n))

ColumnStat(nums) ==
  LET sum == SeqSum(nums)
  IN  [count |-> Len(nums), sum |-> sum, avg |-> NumDivInt(sum, Len(nums)),
       min |-> MathMin(nums), max |-> MathMax(nums)]

\* cols.forEach(...) from column i on, numericCols so far being acc.
RECURSIVE ForEachCol(_, _, _, _)
ForEachCol(rows, cols, i, acc) ==
  IF i > Len(cols) THEN acc
  ELSE LET nums == ColumnNums(rows, cols[i])
       IN  ForEachCol(rows, cols, i + 1,
             IF Len(nums) > 0 THEN SetProp(acc, cols[i], ColumnStat(nums)) ELSE acc)

\* rowCount taken from the parsed values of the first column.
buildProfile_numericRows(rows) ==
  IF Len(rows) = 0 THEN [rowCount |-> 0, numericCols |-> EmptyObj]
  ELSE [rowCount |-> Len(ColumnNums(rows, ObjectKeys(rows[1])[1])),
        numericCols |-> ForEachCol(rows, ObjectKeys(rows[1]), 1, EmptyObj)]

buildProfile(rows) ==
  IF Len(rows) = 0 THEN [rowCount |-> 0, numericCols |-> EmptyObj]
  ELSE [rowCount |-> Len(rows),
        numericCols |-> ForEachCol(rows, ObjectKeys(rows[1]), 1, EmptyObj)]

\* ---------------------------------------------------------------- stats table
\* A field of a table row is <<>> for the empty string or <<v>> for the value v.
Blank == <<>>

RowCountName == <<"_", "_", "R", "O", "W", "C", "O", "U", "N", "T", "_", "_">>

Fields == <<"Column", "Count", "Sum", "Avg", "Min", "Max">>

\* Object.entries(profile.numericCols).map(...) followed by unshift(sentinel)
buildCsvRows(profile) ==
  LET es == ObjectEntries(profile.numericCols)
  IN  <<[Column |-> RowCountName, Count |-> profile.rowCount,
         Sum |-> Blank, Avg |-> Blank, Min |-> Blank, Max |-> Blank]>>
      \o [i \in 1..Len(es) |->
            [Column |-> es[i][1], Count |-> es[i][2].count,
             Sum |-> <<es[i][2].sum>>, Avg |-> <<es[i][2].avg>>,
             Min |-> <<es[i][2].min>>, Max |-> <<es[i][2].max>>]]

\* new Parser({fields}).parse(csvRows): the header line and one line per row,
\* each line holding the row's fields in the order of Fields.
csvParse(csvRows) ==
  [header |-> Fields,
   lines  |-> [i \in 1..Len(csvRows) |->
                 <<csvRows[i].Column, csvRows[i].Count, csvRows[i].Sum,
                   csvRows[i].Avg, csvRows[i].Min, csvRows[i].Max>>]]

\* ---------------------------------------------------------------- keys
\* key.replace(/\+/g, " ")
ReplacePlus(s) == [i \in 1..Len(s) |-> IF s[i] = "+" THEN " " ELSE s[i]]

HexChars == DigitChars \cup {"A", "B", "C", "D", "E", "F"}

HexVal(c) ==
  CASE c \in DigitChars -> DigitVal(c)
    [] c = "A" -> 10 [] c = "B" -> 11 [] c = "C" -> 12
    [] c = "D" -> 13 [] c = "E" -> 14 [] c = "F" -> 15

\* The ASCII characters the keys of the model escape.
CharOfCode(c) ==
  CASE c = 32 -> " " [] c = 37 -> "%" [] c = 43 -> "+"
    [] c = 46 -> "." [] c = 47 -> "/"

\* decodeURIComponent: ok is FALSE where the call throws URIError (a % that
\* is not followed by two hex digits, or a byte that is not valid UTF-8).
RECURSIVE decodeURIComponent(_)
decodeURIComponent(s) ==
  IF s = <<>> THEN [ok |-> TRUE, s |-> <<>>]
  ELSE IF s[1] # "%"
  THEN LET r == decodeURIComponent(Drop(s, 1))
       IN  [ok |-> r.ok, s |-> IF r.ok THEN <<s[1]>> \o r.s ELSE <<>>]
  ELSE IF Len(s) < 3 \/ s[2] \notin HexChars \/ s[3] \notin HexChars
  THEN [ok |-> FALSE, s |-> <<>>]
  ELSE IF HexVal(s[2]) * 16 + HexVal(s[3]) >= 128
  THEN [ok |-> FALSE, s |-> <<>>]
  ELSE LET r == decodeURIComponent(Drop(s, 3))
       IN  [ok |-> r.ok,
            s  |-> IF r.ok THEN <<CharOfCode(HexVal(s[2]) * 16 + HexVal(s[3]))>> \o r.s
                   ELSE <<>>]

ExtCsv == <<".", "c", "s", "v">>

ExtXlsx == <<".", "x", "l", "s", "x">>

\* Only the last extension is stripped.
baseName_lastDot(key) ==
  LET seg  == Pop(Split(key, "/"))
      dots == {i \in 1..Len(seg) : seg[i] = "."}
  IN  IF dots = {} THEN seg
      ELSE Take(seg, (CHOOSE i \in dots : \A j \in dots : j <= i) - 1)

\* key.split("/").pop().split(".")[0]
baseName(key) == Split(Pop(Split(key, "/")), ".")[1]

Summaries == <<"s", "u", "m", "m", "a", "r", "i", "e", "s", "/">>

Txt == <<"t", "x", "t">>

Json == <<"j", "s", "o", "n">>

Csv == <<"c", "s", "v">>

\* The outputs array in the opposite order.
outputExts_csvFirst == <<Csv, Json, Txt>>

\* The extensions of the outputs array, in its order.
outputExts == <<Txt, Json, Csv>>

\* `summaries/${baseName}.${out.ext}`
outKey(base, ext) == Summaries \o base \o <<".">> \o ext

\* ---------------------------------------------------------------- inputs
\* The object keys of the notification records, as S3 sends them (URL-encoded).
RawKeys ==
  { <<"d", "a", "t", "a", ".", "c", "s", "v">>,
    <<"f", "o", "l", "d", "e", "r", "/", "r", "e", "p", "o", "r", "t", ".",
      "2", "0", "2", "4", ".", "x", "l", "s", "x">>,
    <<"m", "y", "+", "f", ".", "c", "s", "v">>,
    <<"a", ".", "b", "%", "2", "F", "c", ".", "c", "s", "v">>,
    <<"d", "/", ".", "c", "s", "v">>,
    <<"d", "o", "c", ".", "p", "d", "f">>,
    <<"n", "o", "e", "x", "t">>,
    <<"b", "a", "d", "%", ".", "c", "s", "v">> }

ColNames == { <<"a", "m", "t">>, <<"2">>, <<"1", "0">> }

CellTexts ==
  { <<"1", "0">>, <<"2", "0">>, <<"x">>, <<" ", "1", ".", "5", "e", "1", "k">>,
    <<"I", "n", "f", "i", "n", "i", "t", "y">>,
    <<"-", "I", "n", "f", "i", "n", "i", "t", "y">> }

Range(s) == {s[i] : i \in 1..Len(s)}

\* The header rows: sequences of distinct column names.
Headers ==
  UNION {{h \in [1..c -> ColNames] : \A i, j \in 1..c : i # j => h[i] # h[j]}
           : c \in 1..MaxCols}

\* The row objects a decoder builds under header h: the cells that are present
\* become properties, created in header order.
RowsOf(h) ==
  UNION {{[keys |-> SelectSeq(h, LAMBDA k : k \in P), val |-> f] : f \in [P -> CellTexts]}
           : P \in (SUBSET Range(h)) \ {{}}}

AllRowSets ==
  {<<>>} \cup
  UNION {UNION {[1..r -> RowsOf(h)] : r \in {q \in 1..MaxRows : q * Len(h) <= MaxCells}}
           : h \in Headers}

Row1(c, v) == [keys |-> <<c>>, val |-> [x \in {c} |-> v]]

Row2(c1, v1, c2, v2) ==
  [keys |-> <<c1, c2>>, val |-> [x \in {c1, c2} |-> IF x = c1 THEN v1 ELSE v2]]

\* The decoded files of the pipeline runs.
SampleRowSets ==
  { <<>>,
    << Row1(<<"a", "m", "t">>, <<"1", "0">>), Row1(<<"a", "m", "t">>, <<"2", "0">>),
       Row1(<<"a", "m", "t">>, <<"x">>) >>,
    << Row2(<<"a", "m", "t">>, <<"x">>, <<"2">>, <<"1", "0">>) >>,
    << Row1(<<"1", "0">>, <<"I", "n", "f", "i", "n", "i", "t", "y">>) >> }

\* The answers of the text generation service: the call throws (err), or it
\* returns choices; content is <<>> for null and <<text>> for a string.
Response(content) == [err |-> FALSE, choices |-> <<[content |-> content]>>]

GenResponses ==
  { [err |-> TRUE,  choices |-> <<>>],
    [err |-> FALSE, choices |-> <<>>],
    Response(<<>>),
    Response(<< <<>> >>),
    Response(<< <<" ">> >>),
    Response(<< <<" ", "o", "k", " ">> >>) }

\* ---------------------------------------------------------------- state
VARIABLES rawKey, run, pc, key, rows, profile, res, textSummary, jsonSummary,
          csvRows, csvSummary, outIdx, calls, written, bucket, result, err

vars == <<rawKey, run, pc, key, rows, profile, res, textSummary, jsonSummary,
          csvRows, csvSummary, outIdx, calls, written, bucket, result, err>>

locals == <<key, rows, profile, res, textSummary, jsonSummary, csvRows, csvSummary, outIdx>>

EmptyBucket == [k \in {} |-> 0]

\* The state of an invocation at its first statement.
Fresh ==
  /\ pc = "start"
  /\ key = <<>>
  /\ rows = <<>>
  /\ profile = <<>>
  /\ res = <<>>
  /\ textSummary = <<>>
  /\ jsonSummary = <<>>
  /\ csvRows = <<>>
  /\ csvSummary = <<>>
  /\ outIdx = 0
  /\ calls = <<>>
  /\ written = <<>>
  /\ result = "pending"
  /\ err = ""

Init ==
  /\ rawKey \in RawKeys
  /\ run = 1
  /\ bucket = EmptyBucket
  /\ Fresh

\* A catch block that logs the error and returns normally.
Throw_swallow(e) ==
  /\ pc' = "done"
  /\ result' = "ok200"
  /\ err' = e

\* throw e inside or outside the try block: the catch block rethrows.
Throw(e) ==
  /\ pc' = "thrown"
  /\ result' = "thrown"
  /\ err' = e

\* const key = decodeURIComponent(record.s3.object.key.replace(/\+/g, " "))
Start ==
  /\ pc = "start"
  /\ LET d == decodeURIComponent(ReplacePlus(rawKey))
     IN  IF d.ok
         THEN /\ key' = d.s
              /\ pc' = "fetch"
              /\ UNCHANGED <<result, err>>
         ELSE /\ Throw("URIError")
              /\ UNCHANGED key
  /\ UNCHANGED <<rawKey, run, rows, profile, res, textSummary, jsonSummary,
                 csvRows, csvSummary, outIdx, calls, written, bucket>>

\* 1. Read file: GetObject and transformToByteArray
Fetch ==
  /\ pc = "fetch"
  /\ calls' = Append(calls, "get")
  /\ \E ok \in BOOLEAN :
       IF ok THEN pc' = "decode" /\ UNCHANGED <<result, err>>
       ELSE Throw("GetObjectError")
  /\ UNCHANGED <<rawKey, run, locals, written, bucket>>

\* The if / else if / else on the key's extension, and the parser it calls.
Decode ==
  /\ pc = "decode"
  /\ IF EndsWith(key, ExtCsv) \/ EndsWith(key, ExtXlsx)
     THEN /\ calls' = Append(calls, "decode")
          /\ \/ \E rs \in SampleRowSets :
                  /\ rows' = <<rs>>
                  /\ pc' = "profile"
                  /\ UNCHANGED <<result, err>>
             \/ /\ Throw("DecodeError")
                /\ UNCHANGED rows
     ELSE /\ Throw("Unsupported file type")
          /\ UNCHANGED <<rows, calls>>
  /\ UNCHANGED <<rawKey, run, key, profile, res, textSummary, jsonSummary,
                 csvRows, csvSummary, outIdx, written, bucket>>

\* 2. Profile dataset
Profile ==
  /\ pc = "profile"
  /\ profile' = <<buildProfile(rows[1])>>
  /\ pc' = "genText"
  /\ UNCHANGED <<rawKey, run, key, rows, res, textSummary, jsonSummary,
                 csvRows, csvSummary, outIdx, calls, written, bucket, result, err>>

\* res.choices[0].message.content.trim(): [ok, s]; reading a property of
\* undefined (no choice) or of null (no content) throws TypeError.
contentTrim(r) ==
  IF Len(r.choices) = 0 \/ r.choices[1].content = <<>>
  THEN [ok |-> FALSE, s |-> <<>>]
  ELSE [ok |-> TRUE, s |-> Trim(r.choices[1].content[1])]

generateAiSummary ==
  /\ pc = "genText"
  /\ calls' = Append(calls, "generate")
  /\ \E r \in GenResponses :
       /\ res' = <<r>>
       /\ IF r.err THEN Throw("GenerationServiceError") /\ UNCHANGED textSummary
          ELSE IF ~contentTrim(r).ok THEN Throw("TypeError") /\ UNCHANGED textSummary
          ELSE /\ textSummary' = <<contentTrim(r).s>>
               /\ pc' = "genJson"
               /\ UNCHANGED <<result, err>>
  /\ UNCHANGED <<rawKey, run, key, rows, profile, jsonSummary, csvRows, csvSummary,
                 outIdx, written, bucket>>

generateAiJsonSummary ==
  /\ pc = "genJson"
  /\ calls' = Append(calls, "generate")
  /\ \E r \in GenResponses :
       /\ res' = <<r>>
       /\ IF r.err THEN Throw("GenerationServiceError") /\ UNCHANGED jsonSummary
          ELSE IF ~contentTrim(r).ok THEN Throw("TypeError") /\ UNCHANGED jsonSummary
          ELSE /\ jsonSummary' = <<contentTrim(r).s>>
               /\ pc' = "buildCsv"
               /\ UNCHANGED <<result, err>>
  /\ UNCHANGED <<rawKey, run, key, rows, profile, textSummary, csvRows, csvSummary,
                 outIdx, written, bucket>>

\* 4. Power BI CSV summary
BuildCsv ==
  /\ pc = "buildCsv"
  /\ csvRows' = <<buildCsvRows(profile[1])>>
  /\ csvSummary' = <<csvParse(buildCsvRows(profile[1]))>>
  /\ outIdx' = 1
  /\ pc' = "persist"
  /\ UNCHANGED <<rawKey, run, key, rows, profile, res, textSummary, jsonSummary,
                 calls, written, bucket, result, err>>

\* outputs[i].body
outputBody(i) ==
  CASE i = 1 -> textSummary[1]
    [] i = 2 -> jsonSummary[1]
    [] i = 3 -> csvSummary[1]

\* A return placed inside the loop body.
loopDone_first(i) == i = 1

\* for (const out of outputs): turn i was the last one.
loopDone(i) == i = Len(outputExts)

\* 5. One turn of the for loop: PutObject of outputs[outIdx]; after the last
\* turn the handler returns statusCode 200.
Put ==
  /\ pc = "persist"
  /\ outIdx <= Len(outputExts)
  /\ calls' = Append(calls, "put")
  /\ LET k == outKey(baseName(key), outputExts[outIdx])
         b == outputBody(outIdx)
     IN  \E ok \in BOOLEAN :
           IF ok
           THEN /\ bucket' = [x \in (DOMAIN bucket) \cup {k} |->
                                IF x = k THEN b ELSE bucket[x]]
                /\ written' = Append(written, [key |-> k, body |-> b])
                /\ outIdx' = outIdx + 1
                /\ IF loopDone(outIdx)
                   THEN pc' = "done" /\ result' = "ok200"
                   ELSE UNCHANGED <<pc, result>>
                /\ UNCHANGED err
           ELSE /\ Throw("PutObjectError")
                /\ UNCHANGED <<bucket, written, outIdx>>
  /\ UNCHANGED <<rawKey, run, key, rows, profile, res, textSummary, jsonSummary,
                 csvRows, csvSummary>>

\* The host delivers the same notification again: a new invocation starts,
\* the output bucket keeps its objects.
Redeliver ==
  /\ pc \in {"done", "thrown"}
  /\ run < MaxRuns
  /\ run' = run + 1
  /\ pc' = "start"
  /\ key' = <<>>
  /\ rows' = <<>>
  /\ profile' = <<>>
  /\ res' = <<>>
  /\ textSummary' = <<>>
  /\ jsonSummary' = <<>>
  /\ csvRows' = <<>>
  /\ csvSummary' = <<>>
  /\ outIdx' = 0
  /\ calls' = <<>>
  /\ written' = <<>>
  /\ result' = "pending"
  /\ err' = ""
  /\ UNCHANGED <<rawKey, bucket>>

Next ==
  \/ Start
  \/ Fetch
  \/ Decode
  \/ Profile
  \/ generateAiSummary
  \/ generateAiJsonSummary
  \/ BuildCsv
  \/ Put
  \/ Redeliver

Spec == Init /\ [][Next]_vars

\* ---------------------------------------------------------------- profiler alone
\* buildProfile and the table rows applied to every bounded row sequence.
InitProfile ==
  /\ rawKey = <<"d", "a", "t", "a", ".", "c", "s", "v">>
  /\ run = 1
  /\ bucket = EmptyBucket
  /\ pc = "rows"
  /\ key = rawKey
  /\ \E rs \in AllRowSets : rows = <<rs>>
  /\ profile = <<>>
  /\ res = <<>>
  /\ textSummary = <<>>
  /\ jsonSummary = <<>>
  /\ csvRows = <<>>
  /\ csvSummary = <<>>
  /\ outIdx = 0
  /\ calls = <<>>
  /\ written = <<>>
  /\ result = "pending"
  /\ err = ""

ApplyBuildProfile ==
  /\ pc = "rows"
  /\ profile' = <<buildProfile(rows[1])>>
  /\ pc' = "profiled"
  /\ UNCHANGED <<rawKey, run, key, rows, res, textSummary, jsonSummary,
                 csvRows, csvSummary, outIdx, calls, written, bucket, result, err>>

ApplyBuildCsv ==
  /\ pc = "profiled"
  /\ csvRows' = <<buildCsvRows(profile[1])>>
  /\ csvSummary' = <<csvParse(buildCsvRows(profile[1]))>>
  /\ pc' = "exported"
  /\ UNCHANGED <<rawKey, run, key, rows, profile, res, textSummary, jsonSummary,
                 outIdx, calls, written, bucket, result, err>>

NextProfile == ApplyBuildProfile \/ ApplyBuildCsv

SpecProfile == InitProfile /\ [][NextProfile]_vars

\* ---------------------------------------------------------------- properties
Supported(k) == EndsWith(k, ExtCsv) \/ EndsWith(k, ExtXlsx)

FullCalls == <<"get", "decode", "generate", "generate", "put", "put", "put">>

IsPrefix(a, b) == Len(a) <= Len(b) /\ a = Take(b, Len(a))

NumPuts == Cardinality({i \in 1..Len(calls) : calls[i] = "put"})

\* C1: for a key whose extension is neither .csv nor .xlsx the handler fails
\* with the unsupported-format error before any collaborator has been called,
\* and nothing is written.
C1_UnsupportedBeforeAnyCall ==
  (pc # "start" /\ err # "URIError" /\ ~Supported(key)) =>
    /\ calls = <<>>
    /\ written = <<>>
    /\ (pc = "thrown" => err = "Unsupported file type")

\* C2: once a step of a run has failed, the run makes no further collaborator
\* call and writes nothing more, the failure is thrown to the caller and the
\* run never reports success.
C2_FailureAborts ==
  [][ /\ (err' # "" => (pc' = "thrown" /\ result' = "thrown"))
      /\ ((err # "" /\ run' = run) =>
            (calls' = calls /\ written' = written /\ bucket' = bucket
             /\ result' = "thrown" /\ err' = err)) ]_vars

C2_Witness == result = "thrown" /\ err = "PutObjectError" /\ Len(written) = 1

\* C3: the collaborator calls of a run follow the order fetch, decode, two
\* generations, three writes; no write is attempted before the narrative, the
\* structured insight and the stats table exist; the profile exists before any
\* generation; success is reported only after all three writes.
C3_PipelineOrder ==
  /\ IsPrefix(calls, FullCalls)
  /\ (profile # <<>> => rows # <<>>)
  /\ (Len(calls) >= 3 => profile # <<>>)
  /\ (NumPuts > 0 => (textSummary # <<>> /\ jsonSummary # <<>>
                       /\ csvRows # <<>> /\ csvSummary # <<>>))
  /\ (result = "ok200" => (Len(written) = 3 /\ calls = FullCalls))

C3_Witness == result = "ok200" /\ pc = "done"

\* C4: the profile's rowCount is the number of rows, whatever the rows hold,
\* and the profile of no rows is exactly {rowCount: 0, numericCols: {}}.
C4_RowCount ==
  profile # <<>> =>
    /\ profile[1].rowCount = Len(rows[1])
    /\ (rows[1] = <<>> => profile[1] = [rowCount |-> 0, numericCols |-> EmptyObj])

C4_Witness ==
  /\ pc = "profiled"
  /\ Len(rows[1]) = 3
  /\ profile[1].rowCount = 3
  /\ profile[1].numericCols = EmptyObj

\* The parsed values of column col that are finite numbers.
FiniteNums(rs, col) ==
  SelectSeq([i \in 1..Len(rs) |-> parseFloat(CellText(rs[i], col))],
            LAMBDA n : n.k = "fin")

\* C5: a column of the first row is in numericCols exactly if some row's
\* value for it parses to a finite number; NaN and infinite values are not
\* counted, so every entry has count >= 1.
C5_FiniteOnly ==
  (profile # <<>> /\ rows[1] # <<>>) =>
    \A col \in Range(rows[1][1].keys) :
      /\ (col \in DOMAIN profile[1].numericCols.val) <=> (Len(FiniteNums(rows[1], col)) > 0)
      /\ (col \in DOMAIN profile[1].numericCols.val =>
            /\ profile[1].numericCols.val[col].count = Len(FiniteNums(rows[1], col))
            /\ profile[1].numericCols.val[col].count >= 1)

\* C6: for every column of numericCols, count is the number of rows whose
\* value parsed, sum their sum, min and max the least and greatest of them,
\* and avg * count = sum.
C6_Stats ==
  profile # <<>> =>
    \A col \in DOMAIN profile[1].numericCols.val :
      LET st == profile[1].numericCols.val[col]
          ns == FiniteNums(rows[1], col)
      IN  /\ st.count = Len(ns)
          /\ NumEq(st.sum, SeqSum(ns))
          /\ \E i \in 1..Len(ns) : NumEq(st.min, ns[i])
          /\ \E i \in 1..Len(ns) : NumEq(st.max, ns[i])
          /\ \A i \in 1..Len(ns) : ~NumLess(ns[i], st.min) /\ ~NumLess(st.max, ns[i])
          /\ NumEq(NumMulInt(st.avg, st.count), st.sum)

\* C7: the stats table has 1 + |numericCols| rows: the sentinel row
\* (__ROWCOUNT__, rowCount, four blanks) and then one row per numericCols entry
\* in the order the columns appear in the source rows, whatever their names.
C7_TableOrder ==
  csvRows # <<>> =>
    LET t    == csvRows[1]
        cols == IF rows[1] = <<>> THEN <<>>
                ELSE SelectSeq(rows[1][1].keys,
                               LAMBDA c : c \in DOMAIN profile[1].numericCols.val)
    IN  /\ Len(t) = 1 + Cardinality(DOMAIN profile[1].numericCols.val)
        /\ t[1].Column = RowCountName
        /\ t[1].Count = profile[1].rowCount
        /\ t[1].Sum = Blank /\ t[1].Avg = Blank /\ t[1].Min = Blank /\ t[1].Max = Blank
        /\ Len(cols) = Len(t) - 1
        /\ \A i \in 1..Len(cols) : t[i + 1].Column = cols[i]

\* The part of the final path segment of k before its first dot, read off the
\* positions of the last slash and of the first dot after it.
FirstSegment(k) ==
  LET slashes == {i \in 1..Len(k) : k[i] = "/"}
      from    == IF slashes = {} THEN 0
                 ELSE CHOOSE i \in slashes : \A j \in slashes : j <= i
      dots    == {i \in (from + 1)..Len(k) : k[i] = "."}
      to      == IF dots = {} THEN Len(k) + 1
                 ELSE CHOOSE i \in dots : \A j \in dots : i <= j
  IN  SubSeq(k, from + 1, to - 1)

ReportKey ==
  <<"f", "o", "l", "d", "e", "r", "/", "r", "e", "p", "o", "r", "t", ".",
    "2", "0", "2", "4", ".", "x", "l", "s", "x">>

\* C8: the objects of a run are summaries/<base>.txt, .json and .csv, <base>
\* being the part of the key's final path segment before its first dot
\* ("folder/report.2024.xlsx" gives "report"); a redelivered run writes to the
\* same keys, so the bucket never holds another key.
C8_OutputKeys ==
  LET k    == decodeURIComponent(ReplacePlus(rawKey)).s
      base == FirstSegment(k)
      name(e) == Summaries \o base \o <<".">> \o e
  IN  /\ \A i \in 1..Len(written) :
           written[i].key \in {name(Txt), name(Json), name(Csv)}
      /\ DOMAIN bucket \subseteq {name(Txt), name(Json), name(Csv)}
      /\ (Len(written) = 3 =>
            {written[i].key : i \in 1..3} = {name(Txt), name(Json), name(Csv)})
      /\ (rawKey = ReportKey /\ written # <<>> =>
            written[1].key = Summaries \o <<"r", "e", "p", "o", "r", "t", ".", "t", "x", "t">>)

C8_Witness == run = 2 /\ Len(written) = 3 /\ rawKey = ReportKey

\* C9: a summary operation fails whenever the generation call throws or
\* returns no content (absent or empty text); the run then aborts and writes
\* nothing.
C9_NoContentFails ==
  (res # <<>>
   /\ (\/ res[1].err
       \/ res[1].choices = <<>>
       \/ res[1].choices[1].content = <<>>
       \/ res[1].choices[1].content[1] = <<>>)) =>
    (result = "thrown" /\ written = <<>>)

\* C10: the objects written by a run are a prefix of txt, json, csv, each
\* written once; after a failed write the earlier objects are still in the
\* bucket and no later write was attempted.
C10_WritePrefix ==
  /\ Len(written) <= 3
  /\ \A i \in 1..Len(written) :
       /\ EndsWith(written[i].key, <<".">> \o (CASE i = 1 -> Txt [] i = 2 -> Json [] i = 3 -> Csv))
       /\ written[i].key \in DOMAIN bucket
  /\ \A i, j \in 1..Len(written) : i # j => written[i].key # written[j].key
  /\ NumPuts \in {Len(written), Len(written) + 1}
  /\ (NumPuts = Len(written) + 1 => (pc = "thrown" /\ err = "PutObjectError"))

C10_Witness == pc = "thrown" /\ err = "PutObjectError" /\ Len(written) = 2

====
